---- MODULE Spec2Model ----
(***************************************************************************)
(* State-machine model of src/yolo.py: the ObjectDetection pipeline.       *)
(*                                                                         *)
(* The program loads a detector, opens a video source and runs one loop:   *)
(* read a frame, count it, decide from the frame rates whether the frame   *)
(* is scored, and for a scored frame run the detector, hand the pixel      *)
(* regions to the external logic(...) sink and draw the boxes.  The cv2    *)
(* video source, the cv2 window, the detector and the sink are the         *)
(* environment: their calls are recorded in history variables.             *)
(*                                                                         *)
(* Frame rates are integers in one common unit (the stride only depends on *)
(* their ratio).  A normalized coordinate is the fraction q / Den of the   *)
(* frame dimension, q in 0..Den.                                           *)
(***************************************************************************)
EXTENDS Integers, Sequences, FiniteSets

\* ------------------------------------------------------------------ bounds

\* Largest number of frames a video source holds.
MaxFrames == 9
\* Largest number of detections the detector returns for one frame.
MaxDet == 2
\* Resolution of normalized coordinates: x_norm = q / Den.
Den == 4
\* Extent (in 1/Den units) of the boxes the detector is given to return.
BoxSpan == 3
\* frame.shape[1] and frame.shape[0] of the frames of the source.
FrameWidth == 3
FrameHeight == 2

\* Frame rates the source may report (player.get(cv2.CAP_PROP_FPS)).
SourceRates == {0, 25, 30}
\* Values of settings.CAM_FMS.
TargetRates == {0, 10, 30}

\* Normalized boxes <<x1, y1, x2, y2>> (numerators over Den).
Boxes ==
    {<<x1, y1, x1 + BoxSpan, y1 + BoxSpan>> :
        x1 \in 0..(Den - BoxSpan), y1 \in 0..(Den - BoxSpan)}

\* The sequences over S of length at most n.
SeqUpTo(S, n) == UNION {[1..k -> S] : k \in 0..n}

\* What score_frame may return: (labels, cord), one label per row of cord;
\* model.classes = [0] leaves the single class 0.
Batches == {<<[i \in 1..Len(c) |-> 0], c>> : c \in SeqUpTo(Boxes, MaxDet)}

NoFrame == [index |-> 0, rects |-> <<>>, texts |-> <<>>]
NoResults == <<<<>>, <<>>>>

VARIABLES
    modelLoads,     \* input: torch.hub.load succeeds
    isOpened,       \* input: cv2.VideoCapture opened the source
    source_fps,     \* input: the rate the source reports
    CAM_FMS,        \* input: settings.CAM_FMS
    totalFrames,    \* input: number of frames the source holds
    pc,             \* position of the program
    error,          \* the exception that ended the run, or "none"
    frame_rate,     \* local of __call__
    fps,            \* local of __call__
    current_frame,  \* local of __call__
    frame,          \* local of __call__: the frame and what is drawn on it
    results,        \* local of __call__: (labels, cord)
    faces,          \* local of __call__: the regions built for the sink
    framesRead,     \* source: frames delivered so far
    readCalls,      \* history: calls of player.read()
    released,       \* history: calls of player.release()
    windowsClosed,  \* history: calls of cv2.destroyAllWindows()
    scored,         \* history: frame numbers passed to score_frame
    displayOnly,    \* history: frame numbers shown by the loop itself
    displayed,      \* history: cv2.imshow('video', .) calls, in order
    sinkFrames,     \* history: frame numbers logic(...) was called for
    sinkArgs        \* history: arguments of the last logic(...) call

inputs == <<modelLoads, isOpened, source_fps, CAM_FMS, totalFrames>>
locals == <<frame_rate, fps, current_frame, frame, results, faces>>
source == <<framesRead, readCalls, released>>
window == <<windowsClosed, displayed>>
history == <<scored, displayOnly, sinkFrames, sinkArgs>>
vars == <<inputs, pc, error, locals, source, window, history>>

\* ----------------------------------------------------------- pure helpers

\* int(row[k] * shape): the product truncated towards zero.
IntPx(q, shape) == (q * shape) \div Den

\* The pixel box of one row of cord.
PixelBox(row, x_shape, y_shape) ==
    <<IntPx(row[1], x_shape), IntPx(row[2], y_shape),
      IntPx(row[3], x_shape), IntPx(row[4], y_shape)>>

\* faces.append([frame, x1, y1, x2-x1, y2-y1])
Region(f, row, x_shape, y_shape) ==
    LET b == PixelBox(row, x_shape, y_shape)
    IN  [frame |-> f.index, x |-> b[1], y |-> b[2],
         w |-> b[3] - b[1], h |-> b[4] - b[2]]

\* ----------------------------------------------------------------- actions

Init ==
    /\ modelLoads \in BOOLEAN
    /\ isOpened \in BOOLEAN
    /\ source_fps \in SourceRates
    /\ CAM_FMS \in TargetRates
    /\ totalFrames \in 0..MaxFrames
    /\ (~isOpened => source_fps = 0 /\ totalFrames = 0)
    /\ pc = "init"
    /\ error = "none"
    /\ frame_rate = 0
    /\ fps = 0
    /\ current_frame = 0
    /\ frame = NoFrame
    /\ results = NoResults
    /\ faces = <<>>
    /\ framesRead = 0
    /\ readCalls = 0
    /\ released = 0
    /\ windowsClosed = 0
    /\ scored = <<>>
    /\ displayOnly = <<>>
    /\ displayed = <<>>
    /\ sinkFrames = <<>>
    /\ sinkArgs = <<>>

\* a = ObjectDetection(): load_model raises when the model cannot be loaded.
Construct ==
    /\ pc = "init"
    /\ \/ modelLoads /\ pc' = "call" /\ error' = error
       \/ ~modelLoads /\ pc' = "failed" /\ error' = "ModelLoadError"
    /\ UNCHANGED <<inputs, locals, source, window, history>>

\* OpenSource without "if fps > frame_rate: fps = frame_rate".
OpenSourceNoClamp ==
    /\ pc = "call"
    /\ \/ /\ isOpened
          /\ frame_rate' = source_fps
          /\ fps' = CAM_FMS
          /\ current_frame' = 0
          /\ pc' = "read"
          /\ error' = error
       \/ /\ ~isOpened
          /\ pc' = "failed"
          /\ error' = "AssertionError"
          /\ UNCHANGED <<frame_rate, fps, current_frame>>
    /\ UNCHANGED <<inputs, frame, results, faces, source, window, history>>

\* OpenSource without "assert player.isOpened()".
OpenSourceNoAssert ==
    /\ pc = "call"
    /\ frame_rate' = source_fps
    /\ fps' = IF CAM_FMS > source_fps THEN source_fps ELSE CAM_FMS
    /\ current_frame' = 0
    /\ pc' = "read"
    /\ error' = error
    /\ UNCHANGED <<inputs, frame, results, faces, source, window, history>>

\* a(): get_video_from_file, the assert, the rates and the counter.
OpenSource ==
    /\ pc = "call"
    /\ \/ /\ isOpened
          /\ frame_rate' = source_fps
          /\ fps' = IF CAM_FMS > source_fps THEN source_fps ELSE CAM_FMS
          /\ current_frame' = 0
          /\ pc' = "read"
          /\ error' = error
       \/ /\ ~isOpened
          /\ pc' = "failed"
          /\ error' = "AssertionError"
          /\ UNCHANGED <<frame_rate, fps, current_frame>>
    /\ UNCHANGED <<inputs, frame, results, faces, source, window, history>>

\* Read with the end of the stream raised as an error instead of "break".
ReadEndIsError ==
    /\ pc = "read"
    /\ readCalls' = readCalls + 1
    /\ \/ /\ framesRead < totalFrames
          /\ framesRead' = framesRead + 1
          /\ frame' = [index |-> framesRead + 1, rects |-> <<>>, texts |-> <<>>]
          /\ pc' = "sample"
          /\ error' = error
       \/ /\ framesRead >= totalFrames
          /\ framesRead' = framesRead
          /\ frame' = NoFrame
          /\ pc' = "crashed"
          /\ error' = "IOError"
    /\ UNCHANGED <<inputs, frame_rate, fps, current_frame, results,
                   faces, released, window, history>>

\* ret, frame = player.read(); if not ret: break
Read ==
    /\ pc = "read"
    /\ readCalls' = readCalls + 1
    /\ \/ /\ framesRead < totalFrames
          /\ framesRead' = framesRead + 1
          /\ frame' = [index |-> framesRead + 1, rects |-> <<>>, texts |-> <<>>]
          /\ pc' = "sample"
       \/ /\ framesRead >= totalFrames
          /\ framesRead' = framesRead
          /\ frame' = NoFrame
          /\ pc' = "release"
    /\ UNCHANGED <<inputs, error, frame_rate, fps, current_frame, results,
                   faces, released, window, history>>

\* Sample with the counter tested before it is incremented.
SampleTestBeforeCount ==
    /\ pc = "sample"
    /\ current_frame' = current_frame + 1
    /\ IF fps = 0 \/ frame_rate \div fps = 0
       THEN /\ pc' = "crashed"
            /\ error' = "ZeroDivisionError"
            /\ UNCHANGED <<displayOnly, displayed>>
       ELSE /\ error' = error
            /\ IF current_frame % (frame_rate \div fps) # 0
               THEN /\ displayed' = Append(displayed,
                                       [frame |-> frame.index, by |-> "loop"])
                    /\ displayOnly' = Append(displayOnly, frame.index)
                    /\ pc' = "read"
               ELSE /\ pc' = "score"
                    /\ UNCHANGED <<displayOnly, displayed>>
    /\ UNCHANGED <<inputs, frame_rate, fps, frame, results, faces, source,
                   windowsClosed, scored, sinkFrames, sinkArgs>>

\* current_frame += 1; the modulo test; imshow and continue, or go on.
Sample ==
    /\ pc = "sample"
    /\ current_frame' = current_frame + 1
    /\ IF fps = 0 \/ frame_rate \div fps = 0
       THEN /\ pc' = "crashed"
            /\ error' = "ZeroDivisionError"
            /\ UNCHANGED <<displayOnly, displayed>>
       ELSE /\ error' = error
            /\ IF (current_frame + 1) % (frame_rate \div fps) # 0
               THEN /\ displayed' = Append(displayed,
                                       [frame |-> frame.index, by |-> "loop"])
                    /\ displayOnly' = Append(displayOnly, frame.index)
                    /\ pc' = "read"
               ELSE /\ pc' = "score"
                    /\ UNCHANGED <<displayOnly, displayed>>
    /\ UNCHANGED <<inputs, frame_rate, fps, frame, results, faces, source,
                   windowsClosed, scored, sinkFrames, sinkArgs>>

\* The regions built by the for loop over cord (lines 113-119).
ExtractFaces(res, f) ==
    [i \in 1..Len(res[2]) |-> Region(f, res[2][i], FrameWidth, FrameHeight)]

\* ScoreAndNotify with the sink called only for a non-empty list: "if faces:".
ScoreAndNotifyNonEmpty ==
    /\ pc = "score"
    /\ \E r \in Batches :
         /\ results' = r
         /\ faces' = ExtractFaces(r, frame)
         /\ IF ExtractFaces(r, frame) # <<>>
            THEN /\ sinkFrames' = Append(sinkFrames, frame.index)
                 /\ sinkArgs' = <<ExtractFaces(r, frame), FrameWidth,
                                  FrameHeight>>
            ELSE UNCHANGED <<sinkFrames, sinkArgs>>
    /\ scored' = Append(scored, frame.index)
    /\ pc' = "plot"
    /\ UNCHANGED <<inputs, error, frame_rate, fps, current_frame, frame,
                   source, window, displayOnly>>

\* results = self.score_frame(frame), the detector's answer for the frame;
\* faces = [...]; logic(faces, self.width, self.height)
ScoreAndNotify ==
    /\ pc = "score"
    /\ \E r \in Batches :
         /\ results' = r
         /\ faces' = ExtractFaces(r, frame)
         /\ sinkArgs' = <<ExtractFaces(r, frame), FrameWidth, FrameHeight>>
    /\ scored' = Append(scored, frame.index)
    /\ sinkFrames' = Append(sinkFrames, frame.index)
    /\ pc' = "plot"
    /\ UNCHANGED <<inputs, error, frame_rate, fps, current_frame, frame,
                   source, window, displayOnly>>

\* plot_boxes(results, frame): what is drawn on the frame.  A text is
\* modelled by the number it shows: n stands for "Total Targets: n".
plot_boxes(res, f) ==
    LET n == Len(res[1])
    IN  [index |-> f.index,
         rects |-> f.rects \o
                   [i \in 1..n |-> PixelBox(res[2][i], FrameWidth, FrameHeight)],
         texts |-> f.texts \o [i \in 1..n |-> n]]

\* frame = self.plot_boxes(results, frame), imshow included.
PlotBoxes ==
    /\ pc = "plot"
    /\ frame' = plot_boxes(results, frame)
    /\ displayed' = Append(displayed,
                           [frame |-> frame.index, by |-> "plot_boxes"])
    /\ pc' = "read"
    /\ UNCHANGED <<inputs, error, frame_rate, fps, current_frame, results,
                   faces, source, windowsClosed, history>>

\* player.release()
Release ==
    /\ pc = "release"
    /\ released' = released + 1
    /\ pc' = "destroy"
    /\ UNCHANGED <<inputs, error, locals, framesRead, readCalls, window,
                   history>>

\* cv2.destroyAllWindows(); cv2.waitKey(10); the process exits normally.
DestroyWindows ==
    /\ pc = "destroy"
    /\ windowsClosed' = windowsClosed + 1
    /\ pc' = "done"
    /\ UNCHANGED <<inputs, error, locals, source, displayed, history>>

Next ==
    \/ Construct
    \/ OpenSource
    \/ Read
    \/ Sample
    \/ ScoreAndNotify
    \/ PlotBoxes
    \/ Release
    \/ DestroyWindows

Spec == Init /\ [][Next]_vars

\* The loop runs to completion: no step waits for anything but its own turn.
FairSpec == Spec /\ WF_vars(Next)

\* ------------------------------------------------------------------ claims

ToSet(seq) == {seq[i] : i \in 1..Len(seq)}
Last(seq) == seq[Len(seq)]
Abs(n) == IF n < 0 THEN -n ELSE n

\* No frame is in flight: the loop is at its head, or the run has ended.
Settled == pc \in {"read", "release", "destroy", "done", "crashed"}

\* Both rates positive, the model loaded and the source opened.
ValidConfig ==
    modelLoads /\ isOpened /\ source_fps > 0 /\ CAM_FMS > 0

\* C1: with settings.CAM_FMS = 0 or a source rate of 0, the configuration is
\* rejected before streaming: read() is never called and no
\* ZeroDivisionError is raised in the loop.
C1_ZeroRateRejected ==
    (modelLoads /\ isOpened /\ (CAM_FMS = 0 \/ source_fps = 0)) =>
        /\ readCalls = 0
        /\ error # "ZeroDivisionError"

\* C2: with stride = floor(source_fps / target_fps) (the target clamped to
\* the source rate) and frames numbered 1, 2, 3, ... in read order, a frame
\* is scored iff its number is divisible by stride, every other frame is
\* display-only; for 30 and 10 the stride is 3, frames 3, 6, 9 are scored
\* and frames 1, 2, 4, 5, 7, 8 are display-only.
C2_ScoredIffDivisible ==
    ValidConfig =>
        LET target == IF CAM_FMS > source_fps THEN source_fps ELSE CAM_FMS
            stride == source_fps \div target
        IN  /\ \A n \in ToSet(scored) : n % stride = 0
            /\ \A n \in ToSet(displayOnly) : n % stride # 0
            /\ Settled =>
                 /\ ToSet(scored) \cup ToSet(displayOnly) = 1..framesRead
                 /\ current_frame = framesRead
            /\ (source_fps = 30 /\ CAM_FMS = 10) =>
                 /\ stride = 3
                 /\ (pc = "done" /\ totalFrames = 9) =>
                      /\ scored = <<3, 6, 9>>
                      /\ displayOnly = <<1, 2, 4, 5, 7, 8>>

C2_Witness ==
    /\ pc = "done"
    /\ source_fps = 30
    /\ CAM_FMS = 10
    /\ scored = <<3, 6, 9>>
    /\ displayOnly = <<1, 2, 4, 5, 7, 8>>

\* C3: for positive rates with target_fps > source_fps the target is clamped
\* to source_fps, the stride is 1 and every frame read is scored.
C3_ClampScoresEveryFrame ==
    (modelLoads /\ isOpened /\ source_fps > 0 /\ CAM_FMS > source_fps) =>
        /\ pc \notin {"init", "call"} =>
             /\ fps = source_fps
             /\ frame_rate \div fps = 1
        /\ displayOnly = <<>>
        /\ error = "none"
        /\ Settled => ToSet(scored) = 1..framesRead

C3_Witness ==
    /\ pc = "done"
    /\ source_fps > 0
    /\ CAM_FMS > source_fps
    /\ Len(scored) >= 3
    /\ Len(scored) = totalFrames

\* C4: logic(...) is called exactly once for each scored frame, with one
\* region per detection of the frame's batch (an empty batch still makes a
\* call, with an empty list), never for a display-only frame; after any
\* prefix of the stream the sink calls are the scored frames.
C4_OneSinkCallPerScoredFrame ==
    /\ sinkFrames = scored
    /\ Cardinality(ToSet(sinkFrames)) = Len(sinkFrames)
    /\ ToSet(sinkFrames) \cap ToSet(displayOnly) = {}
    /\ scored # <<>> =>
         /\ Len(sinkArgs[1]) = Len(results[2])
         /\ \A i \in 1..Len(sinkArgs[1]) : sinkArgs[1][i].frame = Last(scored)

C4_Witness ==
    /\ pc = "plot"
    /\ results[2] = <<>>
    /\ sinkArgs[1] = <<>>
    /\ Len(sinkFrames) >= 2
    /\ Last(sinkFrames) = frame.index

\* C5: for every scored frame plot_boxes draws as many rectangles as the
\* batch has detections and the frame carries a count label showing that
\* number; for the empty batch no rectangle is drawn and the label reads
\* "Total Targets: 0".
C5_RectanglesAndLabel ==
    (pc = "read" /\ scored # <<>> /\ frame.index = Last(scored)) =>
        LET n == Len(results[1])
        IN  /\ Len(frame.rects) = n
            /\ frame.texts # <<>>
            /\ \A i \in 1..Len(frame.texts) : frame.texts[i] = n

\* C6: in every run that enters the streaming state release() is called
\* exactly once, only after the read() that reported the end of the stream,
\* no read() follows it, the windows are closed after it, and nothing
\* follows DRAINED.
C6_ReleasedExactlyOnce ==
    /\ released <= 1
    /\ released = 1 =>
         /\ pc \in {"destroy", "done"}
         /\ readCalls = framesRead + 1
         /\ framesRead = totalFrames
    /\ windowsClosed <= released
    /\ pc = "done" => ~ENABLED Next
    /\ (pc \in {"done", "crashed"} /\ readCalls > 0) =>
         /\ released = 1
         /\ windowsClosed = 1

\* C7: for a finite source and a valid configuration the loop leaves
\* STREAMING and reaches DRAINED: the N frames are delivered, exactly N+1
\* read() calls are made, the last one reporting the end of the stream,
\* and the process exits normally.
C7_ReachesDrained ==
    ValidConfig ~>
        (/\ pc = "done"
         /\ framesRead = totalFrames
         /\ readCalls = totalFrames + 1
         /\ error = "none")

C7_Witness ==
    /\ ValidConfig
    /\ pc = "done"
    /\ totalFrames >= 3
    /\ readCalls = totalFrames + 1
    /\ error = "none"

\* C8: when the model cannot be loaded or the source cannot be opened, the
\* run fails in INIT and never streams: no read(), no detector run, no sink
\* call, and nothing follows the failure.
C8_InitFailureIsFatal ==
    /\ (~modelLoads \/ ~isOpened) =>
         /\ pc \in {"init", "call", "failed"}
         /\ readCalls = 0
         /\ framesRead = 0
         /\ scored = <<>>
         /\ sinkFrames = <<>>
    /\ ~modelLoads => pc \in {"init", "failed"}
    /\ pc = "failed" =>
         /\ error \in {"ModelLoadError", "AssertionError"}
         /\ ~ENABLED Next

C8_Witness ==
    /\ modelLoads
    /\ ~isOpened
    /\ pc = "failed"
    /\ error = "AssertionError"
    /\ readCalls = 0

\* px is an integer nearest to (q / Den) * shape.
IsRounded(px, q, shape) == 2 * Abs(px * Den - q * shape) <= Den

\* C9: the pixel coordinates of every emitted region and of every drawn
\* rectangle are round(x_norm * width) and round(y_norm * height) for the
\* current frame's width and height.
C9_PixelsAreRounded ==
    /\ pc = "plot" =>
         \A i \in 1..Len(faces) :
            LET row == results[2][i]
                r == faces[i]
            IN  /\ IsRounded(r.x, row[1], FrameWidth)
                /\ IsRounded(r.y, row[2], FrameHeight)
                /\ IsRounded(r.x + r.w, row[3], FrameWidth)
                /\ IsRounded(r.y + r.h, row[4], FrameHeight)
    /\ (pc = "read" /\ scored # <<>> /\ frame.index = Last(scored)) =>
         \A i \in 1..Len(frame.rects) :
            LET row == results[2][i]
                b == frame.rects[i]
            IN  /\ IsRounded(b[1], row[1], FrameWidth)
                /\ IsRounded(b[2], row[2], FrameHeight)
                /\ IsRounded(b[3], row[3], FrameWidth)
                /\ IsRounded(b[4], row[4], FrameHeight)

\* C10: every frame successfully read is presented to the window exactly
\* once and in read order: a display-only frame by the loop itself and never
\* passed to the detector, a scored frame by plot_boxes after its sink call;
\* after any prefix of the stream the displays are the successful reads.
C10_EveryFrameDisplayedOnce ==
    /\ \A i \in 1..Len(displayed) :
         /\ displayed[i].frame = i
         /\ displayed[i].by = "loop" =>
              i \in ToSet(displayOnly) /\ i \notin ToSet(scored)
         /\ displayed[i].by = "plot_boxes" => i \in ToSet(sinkFrames)
    /\ Settled => Len(displayed) = framesRead
====
